---- MODULE Spec2Model ----
(***************************************************************************)
(* AsyncValueTreeSynchroniser<CAPACITY> (AsynchronousValueTreeSynchroniser.h)*)
(* as a two-thread state machine.                                          *)
(*                                                                         *)
(* The producer thread mutates the source ValueTree; each mutation is      *)
(* delivered synchronously to stateChanged(), which stores the encoded     *)
(* change in arrayOfMemoryBlocks through a juce::AbstractFifo.  The        *)
(* consumer thread calls updateShadowValueTree().  Every access to an      *)
(* atomic (validStart, validEnd, hasOverrun) is one step, so that every    *)
(* interleaving of the two threads is a behaviour of Spec.                 *)
(*                                                                         *)
(* The ValueTree itself is kept abstract: a tree is the log of the         *)
(* mutations that built it (mutations are numbered 1, 2, ... in the order  *)
(* the producer makes them), so two trees are equal exactly when the same  *)
(* mutations were applied in the same order.                               *)
(*                                                                         *)
(* The second part models ArgumentOrganizer.h: ArgumentOrganizer<T...> and  *)
(* ComplexArgumentOrganizer<T...> as functions of the argument list they    *)
(* are constructed from, explored by ArgSpec.                               *)
(***************************************************************************)
EXTENDS Integers, Sequences, FiniteSets, TLC

\* Largest template argument CAPACITY explored by Spec.
MaxCapacity == 3

\* Number of mutations the producer makes before it stops.
MaxMutations == 4

\* Longest prefix of the blocks applied by one poll that the history keeps.
MaxApplied == MaxMutations

Threads == {"prod", "cons"}

VARIABLES
    CAPACITY,             \* template <int CAPACITY>, fixed at construction
    sourceTree,           \* ValueTreeSynchroniser::valueTree (the observed tree)
    shadowValueTree,      \* line 95
    arrayOfMemoryBlocks,  \* line 96, indexed 0..CAPACITY-1
    validStart,           \* AbstractFifo read cursor  (line 97)
    validEnd,             \* AbstractFifo write cursor (line 97)
    hasOverrun,           \* line 98
    scPc,                 \* per thread: position inside stateChanged
    scRec,                \* per thread: the encodedChange passed to stateChanged
    scVs,                 \* per thread: validStart as last loaded
    scSlot,               \* per thread: [start, size] reserved by prepareToWrite
    scNewEnd,             \* per thread: newEnd computed by finishedWrite
    pcU,                  \* consumer: position inside updateShadowValueTree
    uVs,                  \* consumer: validStart as last loaded
    uSlot,                \* consumer: [start, size] reserved by prepareToRead
    uNewStart,            \* consumer: newStart computed by finishedRead
    hasUpdatedSomething,  \* consumer: the local of line 43
    \* history variables (read by no action guard)
    delivered,            \* mutations delivered to stateChanged since the last poll returned
    cleanStart,           \* ring empty and hasOverrun clear when the last poll returned
    shadow0,              \* shadowValueTree when the current poll was called
    applied,              \* blocks passed to applyChange by the current poll
    idleAtCall,           \* the current poll was called with nothing ready and hasOverrun clear
    afterReset,           \* "none", "pending" (reset done, nothing applied since),
                          \* "snapshot" / "stale": kind of the first block applied after it
    resetMark,            \* number of mutations delivered when the last fifo.reset() began
    dropped,              \* greatest mutation whose record was dropped at line 75 and that
                          \* no snapshot enqueued or applied since contains (0: none)
    \* ArgumentOrganizer.h
    arguments,            \* var::NativeFunctionArgs::arguments; numArguments is its length
    typeList,             \* the template parameter pack T...
    organizer,            \* "none", "simple" (ArgumentOrganizer) or "complex"
    tpl,                  \* the member tpl of the organizer constructed
    reads                 \* history: indices at which a.arguments was read

argVars == <<arguments, typeList, organizer, tpl, reads>>

syncVars == <<CAPACITY, sourceTree, shadowValueTree, arrayOfMemoryBlocks, validStart,
          validEnd, hasOverrun, scPc, scRec, scVs, scSlot, scNewEnd, pcU, uVs,
          uSlot, uNewStart, hasUpdatedSomething, delivered, cleanStart, shadow0,
          applied, idleAtCall, afterReset, resetMark, dropped>>

vars == <<syncVars, argVars>>

fifoVars == <<validStart, validEnd>>
scLocals == <<scRec, scVs, scSlot, scNewEnd>>
uLocals == <<uVs, uSlot, uNewStart, hasUpdatedSomething>>
pollHistory == <<delivered, cleanStart, shadow0, applied, idleAtCall, afterReset, resetMark>>
history == <<pollHistory, dropped>>

----------------------------------------------------------------------------
(* Trees and encoded changes *)

\* A default-constructed ValueTree is invalid (line 95).
InvalidTree == [valid |-> FALSE, log |-> <<>>]

\* The tree handed to the constructor (line 28), before any mutation.
InitialTree == [valid |-> TRUE, log |-> <<>>]

\* What a block read while it is being assigned may decode to.
GarbageTree == [valid |-> TRUE, log |-> <<0>>]

\* MemoryBlock() : a slot that was never assigned.
EmptyBlock == [type |-> "empty", id |-> 0, tree |-> InvalidTree]

\* A block observed in the middle of an assignment.
TornBlock == [type |-> "torn", id |-> 0, tree |-> InvalidTree]

\* The encoded change ValueTreeSynchroniser delivers for the id-th mutation.
EncodeChange(id) == [type |-> "change", id |-> id, tree |-> InvalidTree]

\* The encoded change sendFullSyncCallback() delivers: the whole tree.
EncodeFullSync(tree) == [type |-> "fullSync", id |-> 0, tree |-> tree]

\* Tree contains the id-th mutation of the source tree.
Contains(tree, id) == tree.valid /\ id \in 1..Len(tree.log) /\ tree.log[id] = id

\* The source tree after its next mutation.
Mutate(tree) == [tree EXCEPT !.log = Append(@, Len(@) + 1)]

\* ValueTreeSynchroniser::applyChange (line 46): the trees it can leave in root.
\* A full sync replaces root; an incremental change is applied to the node it
\* addresses, which an invalid root does not have; an empty block decodes to
\* no known change type and is ignored.
ApplyChange(root, block) ==
    CASE block.type = "fullSync" -> {block.tree}
      [] block.type = "change" ->
            {IF root.valid THEN [root EXCEPT !.log = Append(@, block.id)] ELSE root}
      [] block.type = "empty" -> {root}
      [] OTHER -> {root, GarbageTree}

----------------------------------------------------------------------------
(* juce::AbstractFifo, constructed as fifo(CAPACITY): bufferSize = CAPACITY *)

Min(a, b) == IF a < b THEN a ELSE b

\* AbstractFifo::getNumReady from the two cursors
NumReady(vs, ve, bufferSize) ==
    IF ve >= vs THEN ve - vs ELSE bufferSize - (vs - ve)

\* AbstractFifo::getFreeSpace
FreeSpace(vs, ve, bufferSize) == bufferSize - NumReady(vs, ve, bufferSize) - 1

\* AbstractFifo::prepareToWrite(numToWrite, ...)
PrepareToWrite(numToWrite, vs, ve, bufferSize) ==
    LET freeSpace == IF ve >= vs THEN bufferSize - (ve - vs) ELSE vs - ve
        n         == Min(numToWrite, freeSpace - 1)
        size1     == Min(bufferSize - ve, n)
        rest      == n - size1
    IN  IF n <= 0
        THEN [start1 |-> 0, size1 |-> 0, start2 |-> 0, size2 |-> 0]
        ELSE [start1 |-> ve, size1 |-> size1, start2 |-> 0,
              size2 |-> IF rest <= 0 THEN 0 ELSE Min(rest, vs)]

\* AbstractFifo::prepareToRead(numWanted, ...)
PrepareToRead(numWanted, vs, ve, bufferSize) ==
    LET numReady == NumReady(vs, ve, bufferSize)
        n        == Min(numWanted, numReady)
        size1    == Min(bufferSize - vs, n)
        rest     == n - size1
    IN  IF n <= 0
        THEN [start1 |-> 0, size1 |-> 0, start2 |-> 0, size2 |-> 0]
        ELSE [start1 |-> vs, size1 |-> size1, start2 |-> 0,
              size2 |-> IF rest <= 0 THEN 0 ELSE Min(rest, ve)]

\* AbstractFifo::finishedWrite / finishedRead: the advanced cursor
Advance(cursor, n, bufferSize) ==
    IF cursor + n >= bufferSize THEN cursor + n - bufferSize ELSE cursor + n

\* The slot an "if (size1 > 0) [start1] else if (size2 > 0) [start2]" touches;
\* size 0 when neither branch is taken.
ChosenSlot(r) ==
    IF r.size1 > 0 THEN [start |-> r.start1, size |-> r.size1 + r.size2]
    ELSE IF r.size2 > 0 THEN [start |-> r.start2, size |-> r.size1 + r.size2]
    ELSE [start |-> 0, size |-> 0]

NoSlot == [start |-> 0, size |-> 0]

----------------------------------------------------------------------------
(* Initial state: the object as the constructor (lines 28-30) leaves it *)

SyncInit ==
    /\ CAPACITY \in 1..MaxCapacity
    /\ sourceTree = InitialTree
    /\ shadowValueTree = InvalidTree
    /\ arrayOfMemoryBlocks = [i \in 0..(CAPACITY - 1) |-> EmptyBlock]
    /\ validStart = 0
    /\ validEnd = 0
    /\ hasOverrun = FALSE
    /\ scPc = [t \in Threads |-> "idle"]
    /\ scRec = [t \in Threads |-> EmptyBlock]
    /\ scVs = [t \in Threads |-> 0]
    /\ scSlot = [t \in Threads |-> NoSlot]
    /\ scNewEnd = [t \in Threads |-> 0]
    /\ pcU = "idle"
    /\ uVs = 0
    /\ uSlot = NoSlot
    /\ uNewStart = 0
    /\ hasUpdatedSomething = FALSE
    /\ delivered = 0
    /\ cleanStart = TRUE
    /\ shadow0 = InvalidTree
    /\ applied = <<>>
    /\ idleAtCall = FALSE
    /\ afterReset = "none"
    /\ resetMark = 0
    /\ dropped = 0

\* No organizer has been constructed.
NoOrganizer ==
    /\ arguments = <<>>
    /\ typeList = <<>>
    /\ organizer = "none"
    /\ tpl = <<>>
    /\ reads = {}

Init == SyncInit /\ NoOrganizer

Other(t) == IF t = "prod" THEN "cons" ELSE "prod"

----------------------------------------------------------------------------
(* stateChanged (lines 71-93), run by thread t.  The producer runs it from  *)
(* the tree's change callback; the consumer runs it from                    *)
(* sendFullSyncCallback() (line 40).                                        *)

\* Where control goes when stateChanged returns in thread t.
ReturnFrom(t) ==
    /\ scPc' = [scPc EXCEPT ![t] = "idle"]
    /\ scRec' = [scRec EXCEPT ![t] = EmptyBlock]
    /\ scVs' = [scVs EXCEPT ![t] = 0]
    /\ scSlot' = [scSlot EXCEPT ![t] = NoSlot]
    /\ scNewEnd' = [scNewEnd EXCEPT ![t] = 0]
    /\ pcU' = IF t = "cons" THEN "ready_vs" ELSE pcU

\* line 73, getFreeSpace(): validStart.get()
SC_FreeLoadStart(t) ==
    /\ scPc[t] = "free_vs"
    /\ scVs' = [scVs EXCEPT ![t] = validStart]
    /\ scPc' = [scPc EXCEPT ![t] = "free_ve"]
    /\ UNCHANGED <<argVars, CAPACITY, sourceTree, shadowValueTree, arrayOfMemoryBlocks,
                   fifoVars, hasOverrun, scRec, scSlot, scNewEnd, pcU, uLocals, history>>

\* line 73, getFreeSpace(): validEnd.get(), and the test "< 1"
SC_FreeLoadEnd(t) ==
    /\ scPc[t] = "free_ve"
    /\ scPc' = [scPc EXCEPT ![t] =
                    IF FreeSpace(scVs[t], validEnd, CAPACITY) < 1
                    THEN "overrun" ELSE "prep_vs"]
    /\ UNCHANGED <<argVars, CAPACITY, sourceTree, shadowValueTree, arrayOfMemoryBlocks,
                   fifoVars, hasOverrun, scLocals, pcU, uLocals, history>>

\* lines 75-76 with the newest record kept instead of dropped: the record
\* overwrites the slot at the write cursor before the flag is set.
SC_SetOverrunOverwriting(t) ==
    /\ scPc[t] = "overrun"
    /\ hasOverrun' = TRUE
    /\ arrayOfMemoryBlocks' = [arrayOfMemoryBlocks EXCEPT ![validEnd] = scRec[t]]
    /\ dropped' = IF scRec[t].type = "change" THEN scRec[t].id ELSE dropped
    /\ ReturnFrom(t)
    /\ UNCHANGED <<argVars, CAPACITY, sourceTree, shadowValueTree, fifoVars, uLocals,
                   pollHistory>>

\* lines 75-76: hasOverrun.set(true); return
SC_SetOverrun(t) ==
    /\ scPc[t] = "overrun"
    /\ hasOverrun' = TRUE
    /\ dropped' = IF scRec[t].type = "change" THEN scRec[t].id ELSE dropped
    /\ ReturnFrom(t)
    /\ UNCHANGED <<argVars, CAPACITY, sourceTree, shadowValueTree, arrayOfMemoryBlocks,
                   fifoVars, uLocals, pollHistory>>

\* line 81, prepareToWrite(): validStart.get()
SC_PrepLoadStart(t) ==
    /\ scPc[t] = "prep_vs"
    /\ scVs' = [scVs EXCEPT ![t] = validStart]
    /\ scPc' = [scPc EXCEPT ![t] = "prep_ve"]
    /\ UNCHANGED <<argVars, CAPACITY, sourceTree, shadowValueTree, arrayOfMemoryBlocks,
                   fifoVars, hasOverrun, scRec, scSlot, scNewEnd, pcU, uLocals, history>>

\* line 81, prepareToWrite(): validEnd.get() and the reservation
SC_PrepLoadEnd(t) ==
    /\ scPc[t] = "prep_ve"
    /\ scSlot' = [scSlot EXCEPT ![t] =
                      ChosenSlot(PrepareToWrite(1, scVs[t], validEnd, CAPACITY))]
    /\ scVs' = [scVs EXCEPT ![t] = 0]
    /\ scPc' = [scPc EXCEPT ![t] = "write"]
    /\ UNCHANGED <<argVars, CAPACITY, sourceTree, shadowValueTree, arrayOfMemoryBlocks,
                   fifoVars, hasOverrun, scRec, scNewEnd, pcU, uLocals, history>>

\* Thread t is at the slot assignment of lines 85-89 for slot i.
Assigning(t, i) == scPc[t] = "write" /\ scSlot[t].size > 0 /\ scSlot[t].start = i

\* The consumer is at the slot read of lines 55-59 for slot i.
Reading(i) == pcU = "apply" /\ uSlot.size > 0 /\ uSlot.start = i

\* lines 85-89: arrayOfMemoryBlocks[start] = MemoryBlock (encodedChange, sizeOfData).
\* The assignment is not atomic: when the other thread is assigning the same
\* slot at the same time the slot may be left torn.
SC_Write(t) ==
    /\ scPc[t] = "write"
    /\ IF scSlot[t].size > 0
       THEN \E b \in (IF Assigning(Other(t), scSlot[t].start)
                      THEN {scRec[t], TornBlock} ELSE {scRec[t]}) :
               arrayOfMemoryBlocks' = [arrayOfMemoryBlocks EXCEPT ![scSlot[t].start] = b]
       ELSE UNCHANGED arrayOfMemoryBlocks
    /\ scPc' = [scPc EXCEPT ![t] = "fin_load"]
    /\ UNCHANGED <<argVars, CAPACITY, sourceTree, shadowValueTree, fifoVars, hasOverrun,
                   scLocals, pcU, uLocals, history>>

\* line 91, finishedWrite(): newEnd = validEnd.get() + numWritten, wrapped
SC_FinLoad(t) ==
    /\ scPc[t] = "fin_load"
    /\ scNewEnd' = [scNewEnd EXCEPT ![t] = Advance(validEnd, scSlot[t].size, CAPACITY)]
    /\ scPc' = [scPc EXCEPT ![t] = "fin_store"]
    /\ UNCHANGED <<argVars, CAPACITY, sourceTree, shadowValueTree, arrayOfMemoryBlocks,
                   fifoVars, hasOverrun, scRec, scVs, scSlot, pcU, uLocals, history>>

\* line 91, finishedWrite(): validEnd = newEnd; then stateChanged returns
SC_FinStore(t) ==
    /\ scPc[t] = "fin_store"
    /\ validEnd' = scNewEnd[t]
    /\ dropped' = IF /\ scSlot[t].size = 1
                     /\ arrayOfMemoryBlocks[scSlot[t].start] = scRec[t]
                     /\ scRec[t].type = "fullSync"
                     /\ Contains(scRec[t].tree, dropped)
                  THEN 0 ELSE dropped
    /\ ReturnFrom(t)
    /\ UNCHANGED <<argVars, CAPACITY, sourceTree, shadowValueTree, arrayOfMemoryBlocks,
                   validStart, hasOverrun, uLocals, pollHistory>>

StateChangedStep(t) ==
    \/ SC_FreeLoadStart(t)
    \/ SC_FreeLoadEnd(t)
    \/ SC_SetOverrun(t)
    \/ SC_PrepLoadStart(t)
    \/ SC_PrepLoadEnd(t)
    \/ SC_Write(t)
    \/ SC_FinLoad(t)
    \/ SC_FinStore(t)

----------------------------------------------------------------------------
(* The producer thread: it mutates the source tree, and the tree's listener *)
(* callback delivers the encoded change to stateChanged on the same thread. *)

\* The producer starts changing the source tree.
P_Begin ==
    /\ scPc["prod"] = "idle"
    /\ Len(sourceTree.log) < MaxMutations
    /\ scPc' = [scPc EXCEPT !["prod"] = "mutate"]
    /\ UNCHANGED <<argVars, CAPACITY, sourceTree, shadowValueTree, arrayOfMemoryBlocks,
                   fifoVars, hasOverrun, scLocals, pcU, uLocals, history>>

\* The tree is changed and stateChanged (line 71) is entered with the change.
P_Mutate ==
    /\ scPc["prod"] = "mutate"
    /\ sourceTree' = Mutate(sourceTree)
    /\ scRec' = [scRec EXCEPT !["prod"] = EncodeChange(Len(sourceTree.log) + 1)]
    /\ scPc' = [scPc EXCEPT !["prod"] = "free_vs"]
    /\ delivered' = delivered + 1
    /\ UNCHANGED <<argVars, CAPACITY, shadowValueTree, arrayOfMemoryBlocks, fifoVars,
                   hasOverrun, scVs, scSlot, scNewEnd, pcU, uLocals, cleanStart,
                   shadow0, applied, idleAtCall, afterReset, resetMark, dropped>>

ProducerStep ==
    \/ P_Begin
    \/ P_Mutate
    \/ StateChangedStep("prod")

\* The producer sends the whole source tree again
\* (ValueTreeSynchroniser::sendFullSyncCallback(), a public member of the
\* base class): stateChanged receives a full-sync record on the producer
\* thread and the source tree is left as it is, so the producer can do this
\* any number of times.
P_SendFullSync ==
    /\ scPc["prod"] = "idle"
    /\ scRec' = [scRec EXCEPT !["prod"] = EncodeFullSync(sourceTree)]
    /\ scPc' = [scPc EXCEPT !["prod"] = "free_vs"]
    /\ UNCHANGED <<argVars, CAPACITY, sourceTree, shadowValueTree, arrayOfMemoryBlocks,
                   fifoVars, hasOverrun, scVs, scSlot, scNewEnd, pcU, uLocals,
                   history>>

\* A producer that never stops enqueuing: it sends its tree over and over.
BusyProducerStep == P_SendFullSync \/ StateChangedStep("prod")

----------------------------------------------------------------------------
(* updateShadowValueTree (lines 32-64), run by the consumer thread *)

\* The consumer calls updateShadowValueTree().
U_Call ==
    /\ pcU = "idle"
    /\ pcU' = "check"
    /\ shadow0' = shadowValueTree
    /\ idleAtCall' = (NumReady(validStart, validEnd, CAPACITY) = 0 /\ ~hasOverrun)
    /\ UNCHANGED <<argVars, CAPACITY, sourceTree, shadowValueTree, arrayOfMemoryBlocks,
                   fifoVars, hasOverrun, scPc, scLocals, uLocals, delivered,
                   cleanStart, applied, afterReset, resetMark, dropped>>

\* line 34 with the test inverted: the recovery branch is taken when
\* hasOverrun is clear.
U_CheckOverrunInverted ==
    /\ pcU = "check"
    /\ pcU' = IF hasOverrun THEN "ready_vs" ELSE "reset_end"
    /\ UNCHANGED <<argVars, CAPACITY, sourceTree, shadowValueTree, arrayOfMemoryBlocks,
                   fifoVars, hasOverrun, scPc, scLocals, uLocals, history>>

\* line 34: if (hasOverrun.get())
U_CheckOverrun ==
    /\ pcU = "check"
    /\ pcU' = IF hasOverrun THEN "reset_end" ELSE "ready_vs"
    /\ UNCHANGED <<argVars, CAPACITY, sourceTree, shadowValueTree, arrayOfMemoryBlocks,
                   fifoVars, hasOverrun, scPc, scLocals, uLocals, history>>

\* line 38, fifo.reset(): validEnd = 0
U_ResetEnd ==
    /\ pcU = "reset_end"
    /\ validEnd' = 0
    /\ pcU' = "reset_start"
    /\ resetMark' = Len(sourceTree.log)
    /\ UNCHANGED <<argVars, CAPACITY, sourceTree, shadowValueTree, arrayOfMemoryBlocks,
                   validStart, hasOverrun, scPc, scLocals, uLocals, delivered,
                   cleanStart, shadow0, applied, idleAtCall, afterReset, dropped>>

\* line 38, fifo.reset(): validStart = 0
U_ResetStart ==
    /\ pcU = "reset_start"
    /\ validStart' = 0
    /\ pcU' = "clear"
    /\ afterReset' = "pending"
    /\ UNCHANGED <<argVars, CAPACITY, sourceTree, shadowValueTree, arrayOfMemoryBlocks,
                   validEnd, hasOverrun, scPc, scLocals, uLocals, delivered,
                   cleanStart, shadow0, applied, idleAtCall, resetMark, dropped>>

\* line 39: hasOverrun.set (false)
U_ClearOverrun ==
    /\ pcU = "clear"
    /\ hasOverrun' = FALSE
    /\ pcU' = "snapshot"
    /\ UNCHANGED <<argVars, CAPACITY, sourceTree, shadowValueTree, arrayOfMemoryBlocks,
                   fifoVars, scPc, scLocals, uLocals, history>>

\* line 40, sendFullSyncCallback(): the source tree is written to a stream on
\* the calling (consumer) thread and handed to stateChanged on that thread.
\* Read while the producer is changing the tree, the stream may hold garbage.
U_Snapshot ==
    /\ pcU = "snapshot"
    /\ \E tree \in (IF scPc["prod"] = "mutate"
                     THEN {sourceTree, GarbageTree} ELSE {sourceTree}) :
           scRec' = [scRec EXCEPT !["cons"] = EncodeFullSync(tree)]
    /\ scPc' = [scPc EXCEPT !["cons"] = "free_vs"]
    /\ pcU' = "fullSync"
    /\ UNCHANGED <<argVars, CAPACITY, sourceTree, shadowValueTree, arrayOfMemoryBlocks,
                   fifoVars, hasOverrun, scVs, scSlot, scNewEnd, uLocals, history>>

\* line 43, getNumReady(): validStart.get()
U_ReadyLoadStart ==
    /\ pcU = "ready_vs"
    /\ uVs' = validStart
    /\ pcU' = "ready_ve"
    /\ UNCHANGED <<argVars, CAPACITY, sourceTree, shadowValueTree, arrayOfMemoryBlocks,
                   fifoVars, hasOverrun, scPc, scLocals, uSlot, uNewStart,
                   hasUpdatedSomething, history>>

\* line 43: bool hasUpdatedSomething = fifo.getNumReady() (validEnd.get())
U_ReadyLoadEnd ==
    /\ pcU = "ready_ve"
    /\ hasUpdatedSomething' = (NumReady(uVs, validEnd, CAPACITY) # 0)
    /\ uVs' = 0
    /\ pcU' = "loop_vs"
    /\ UNCHANGED <<argVars, CAPACITY, sourceTree, shadowValueTree, arrayOfMemoryBlocks,
                   fifoVars, hasOverrun, scPc, scLocals, uSlot, uNewStart, history>>

\* line 48, getNumReady(): validStart.get()
U_LoopLoadStart ==
    /\ pcU = "loop_vs"
    /\ uVs' = validStart
    /\ pcU' = "loop_ve"
    /\ UNCHANGED <<argVars, CAPACITY, sourceTree, shadowValueTree, arrayOfMemoryBlocks,
                   fifoVars, hasOverrun, scPc, scLocals, uSlot, uNewStart,
                   hasUpdatedSomething, history>>

\* line 48: while (fifo.getNumReady() > 0) (validEnd.get())
U_LoopLoadEnd ==
    /\ pcU = "loop_ve"
    /\ pcU' = IF NumReady(uVs, validEnd, CAPACITY) > 0 THEN "prep_vs" ELSE "ret"
    /\ uVs' = 0
    /\ UNCHANGED <<argVars, CAPACITY, sourceTree, shadowValueTree, arrayOfMemoryBlocks,
                   fifoVars, hasOverrun, scPc, scLocals, uSlot, uNewStart,
                   hasUpdatedSomething, history>>

\* line 51, prepareToRead(): validStart.get()
U_PrepLoadStart ==
    /\ pcU = "prep_vs"
    /\ uVs' = validStart
    /\ pcU' = "prep_ve"
    /\ UNCHANGED <<argVars, CAPACITY, sourceTree, shadowValueTree, arrayOfMemoryBlocks,
                   fifoVars, hasOverrun, scPc, scLocals, uSlot, uNewStart,
                   hasUpdatedSomething, history>>

\* line 51, prepareToRead(): validEnd.get() and the reservation
U_PrepLoadEnd ==
    /\ pcU = "prep_ve"
    /\ uSlot' = ChosenSlot(PrepareToRead(1, uVs, validEnd, CAPACITY))
    /\ uVs' = 0
    /\ pcU' = "apply"
    /\ UNCHANGED <<argVars, CAPACITY, sourceTree, shadowValueTree, arrayOfMemoryBlocks,
                   fifoVars, hasOverrun, scPc, scLocals, uNewStart,
                   hasUpdatedSomething, history>>

\* lines 55-59: updateShadowVT (arrayOfMemoryBlocks[start]).  The block is
\* read without synchronisation: while the producer is assigning the same
\* slot, what is read may be torn.
U_Apply ==
    /\ pcU = "apply"
    /\ IF uSlot.size > 0
       THEN \E block \in (IF Assigning("prod", uSlot.start)
                          THEN {arrayOfMemoryBlocks[uSlot.start], TornBlock}
                          ELSE {arrayOfMemoryBlocks[uSlot.start]}) :
            \E tree \in ApplyChange(shadowValueTree, block) :
               /\ shadowValueTree' = tree
               /\ applied' = IF Len(applied) < MaxApplied
                             THEN Append(applied, block) ELSE applied
               /\ afterReset' = IF afterReset = "pending"
                                THEN (IF block.type = "fullSync" THEN "snapshot" ELSE "stale")
                                ELSE afterReset
               /\ dropped' = IF block.type = "fullSync" /\ Contains(block.tree, dropped)
                             THEN 0 ELSE dropped
       ELSE UNCHANGED <<shadowValueTree, applied, afterReset, dropped>>
    /\ pcU' = "fin_load"
    /\ UNCHANGED <<argVars, CAPACITY, sourceTree, arrayOfMemoryBlocks, fifoVars, hasOverrun,
                   scPc, scLocals, uLocals, delivered, cleanStart, shadow0,
                   idleAtCall, resetMark>>

\* line 61, finishedRead(): newStart = validStart.get() + numRead, wrapped
U_FinLoad ==
    /\ pcU = "fin_load"
    /\ uNewStart' = Advance(validStart, uSlot.size, CAPACITY)
    /\ pcU' = "fin_store"
    /\ UNCHANGED <<argVars, CAPACITY, sourceTree, shadowValueTree, arrayOfMemoryBlocks,
                   fifoVars, hasOverrun, scPc, scLocals, uVs, uSlot,
                   hasUpdatedSomething, history>>

\* line 61, finishedRead(): validStart = newStart; back to the loop test
U_FinStore ==
    /\ pcU = "fin_store"
    /\ validStart' = uNewStart
    /\ uNewStart' = 0
    /\ uSlot' = NoSlot
    /\ pcU' = "loop_vs"
    /\ UNCHANGED <<argVars, CAPACITY, sourceTree, shadowValueTree, arrayOfMemoryBlocks,
                   validEnd, hasOverrun, scPc, scLocals, uVs, hasUpdatedSomething,
                   history>>

\* line 63: return hasUpdatedSomething
U_Return ==
    /\ pcU = "ret"
    /\ pcU' = "idle"
    /\ hasUpdatedSomething' = FALSE
    /\ delivered' = 0
    /\ cleanStart' = (validStart = validEnd /\ ~hasOverrun)
    /\ shadow0' = InvalidTree
    /\ applied' = <<>>
    /\ idleAtCall' = FALSE
    /\ UNCHANGED <<argVars, CAPACITY, sourceTree, shadowValueTree, arrayOfMemoryBlocks,
                   fifoVars, hasOverrun, scPc, scLocals, uVs, uSlot, uNewStart,
                   afterReset, resetMark, dropped>>

ConsumerStep ==
    \/ U_Call
    \/ U_CheckOverrun
    \/ U_ResetEnd
    \/ U_ResetStart
    \/ U_ClearOverrun
    \/ U_Snapshot
    \/ (pcU = "fullSync" /\ StateChangedStep("cons"))
    \/ U_ReadyLoadStart
    \/ U_ReadyLoadEnd
    \/ U_LoopLoadStart
    \/ U_LoopLoadEnd
    \/ U_PrepLoadStart
    \/ U_PrepLoadEnd
    \/ U_Apply
    \/ U_FinLoad
    \/ U_FinStore
    \/ U_Return

----------------------------------------------------------------------------
(* Specifications *)

Next == ProducerStep \/ ConsumerStep

\* Every interleaving of the two threads.
Spec == Init /\ [][Next]_vars

\* The schedules in which no call of stateChanged by the producer overlaps a
\* call of updateShadowValueTree: a thread starts or continues a call only
\* while the other thread is outside its own.
SeqProducer == pcU = "idle" /\ ProducerStep
SeqConsumer == scPc["prod"] = "idle" /\ ConsumerStep
NextSeq == SeqProducer \/ SeqConsumer
SeqSpec == Init /\ [][NextSeq]_vars

\* Both threads keep running: the producer until it has made its last
\* mutation, the consumer for ever (it calls updateShadowValueTree again
\* whenever a call has returned).
FairSpec == Spec /\ WF_vars(ProducerStep) /\ WF_vars(ConsumerStep)

\* The two threads with a producer that keeps enqueuing for ever; each thread
\* keeps taking steps.
BusyNext == BusyProducerStep \/ ConsumerStep
BusySpec == Init /\ [][BusyNext]_vars
                 /\ WF_vars(BusyProducerStep) /\ WF_vars(ConsumerStep)

----------------------------------------------------------------------------
(* Helpers for the properties *)

IsPrefix(a, b) == Len(a) <= Len(b) /\ SubSeq(b, 1, Len(a)) = a

\* The tree applyChange leaves after the blocks of a sequence of well-formed
\* blocks were applied to root one after the other.
RECURSIVE Replay(_, _)
Replay(root, blocks) ==
    IF blocks = <<>> THEN root
    ELSE Replay(CHOOSE tree \in ApplyChange(root, Head(blocks)) : TRUE, Tail(blocks))

\* The encoded changes delivered to stateChanged by the producer since the
\* last poll returned, in the order they were delivered.
Window ==
    [k \in 1..delivered |-> EncodeChange(Len(sourceTree.log) - delivered + k)]

\* Slot i holds a committed record the consumer has not finished reading.
CommittedUnread(i) ==
    \E k \in 0..(NumReady(validStart, validEnd, CAPACITY) - 1) :
        i = (validStart + k) % CAPACITY

\* updateShadowValueTree is about to return (line 63).
AtReturn == pcU = "ret"

\* Neither thread is inside a call.
Quiescent == pcU = "idle" /\ scPc["prod"] = "idle"

----------------------------------------------------------------------------
(* C1 .. C10 *)

\* C1 (FIFO fidelity), as claimed: when a poll that started after at most
\* CAPACITY mutations were delivered to an empty ring with hasOverrun clear
\* returns, it has applied exactly the delivered records, each once and in
\* order, and the shadow tree is the result of applying them.
C1_FifoFidelity ==
    (AtReturn /\ cleanStart /\ delivered <= CAPACITY)
        => /\ applied = Window
           /\ shadowValueTree = Replay(shadow0, Window)

\* C2 (overflow safety), as claimed: when a poll that follows more than
\* CAPACITY mutations returns, the shadow tree equals the source tree as it
\* is during the call and hasOverrun is false.
C2_OverflowSafety ==
    (AtReturn /\ delivered > CAPACITY)
        => (shadowValueTree = sourceTree /\ ~hasOverrun)

\* C3 (no cross-contamination), as claimed: whenever updateShadowValueTree
\* returns, the shadow tree is the source's mutation sequence up to some
\* point (a prefix, or a snapshot followed by the mutations after it).
C3_NoCrossContamination ==
    (AtReturn /\ shadowValueTree.valid)
        => IsPrefix(shadowValueTree.log, sourceTree.log)

\* C4 (eventual consistency), as claimed: once the producer has stopped and
\* the consumer keeps polling, the shadow tree eventually equals the source
\* tree and stays equal.
C4_EventualConsistency == <>[](shadowValueTree = sourceTree)

\* C5 (capacity boundary), as claimed: from an empty ring with hasOverrun
\* clear and no poll in between, the first CAPACITY calls of stateChanged
\* enqueue their records without setting hasOverrun, and the next one sets it.
C5_CapacityBoundary ==
    (Quiescent /\ cleanStart)
        => /\ hasOverrun <=> (delivered > CAPACITY)
           /\ delivered <= CAPACITY
                => NumReady(validStart, validEnd, CAPACITY) = delivered

\* C6 (idle poll): every step of a poll that was called with nothing ready
\* and hasOverrun clear, no stateChanged running beside it, leaves the shadow
\* tree, both cursors, every slot and hasOverrun unchanged, and the poll
\* returns false.
C6_IdlePoll ==
    [][(pcU # "idle" /\ idleAtCall)
          => /\ UNCHANGED <<shadowValueTree, validStart, validEnd,
                            arrayOfMemoryBlocks, hasOverrun>>
             /\ pcU' = "ret" => ~hasUpdatedSomething']_vars

\* An idle poll of a synchroniser that has worked before is about to return.
C6_Witness ==
    /\ AtReturn /\ idleAtCall /\ ~hasUpdatedSomething
    /\ shadowValueTree.valid /\ shadowValueTree = shadow0
    /\ Len(sourceTree.log) > 0

\* C7 (return value), as claimed: updateShadowValueTree returns true exactly
\* when it applied at least one block (incremental or full sync) to the
\* shadow tree during the call.
C7_ReturnValue == AtReturn => (hasUpdatedSomething <=> applied # <<>>)

\* C8 (ring invariant), as claimed: the number of committed, unread records
\* is always within 0..CAPACITY, and no step changes a slot that holds a
\* committed record the consumer has not finished reading.
C8_RingInvariant ==
    /\ [](NumReady(validStart, validEnd, CAPACITY) \in 0..CAPACITY)
    /\ [][\A i \in 0..(CAPACITY - 1) :
             CommittedUnread(i) => arrayOfMemoryBlocks'[i] = arrayOfMemoryBlocks[i]]_vars

\* C9 (slot exclusivity), as claimed: no slot is being assigned by one thread
\* while the other reads it, and no slot is being assigned by both threads.
C9_SlotExclusivity ==
    \A i \in 0..(CAPACITY - 1) :
        /\ ~(Assigning("prod", i) /\ Reading(i))
        /\ ~(Assigning("prod", i) /\ Assigning("cons", i))

\* C10 (recovery discards the queue), as claimed: the first block applied
\* after a fifo.reset() is a full snapshot, and no change delivered before
\* that reset began is applied after it.
C10_RecoveryDiscards ==
    /\ afterReset # "stale"
    /\ afterReset # "none" =>
          \A k \in 1..Len(applied) :
              applied[k].type = "change" => applied[k].id > resetMark

\* C11 (non-blocking), as claimed: every call of updateShadowValueTree and
\* every call of stateChanged, on either thread, returns once its thread has
\* taken enough steps, whatever the other thread does meanwhile.
C11_NonBlocking ==
    /\ (pcU # "idle") ~> (pcU = "idle")
    /\ \A t \in Threads : (scPc[t] \notin {"idle", "mutate"}) ~> (scPc[t] = "idle")

\* Thread t is inside the enqueue sequence of stateChanged (lines 73-91).
InEnqueue(t) == scPc[t] \notin {"idle", "mutate"}

\* C12 (single caller per side), as claimed: two enqueue sequences are never
\* in progress at once, and the consumer thread never runs the write side of
\* the ring, the resync of line 40 included.
C12_SingleCaller ==
    /\ ~(InEnqueue("prod") /\ InEnqueue("cons"))
    /\ ~InEnqueue("cons")

\* C13 (flag writers), as claimed: hasOverrun.set(true) is executed only by
\* the producer thread, after a failed getFreeSpace test; hasOverrun becomes
\* false only at line 39, which follows fifo.reset() in the same call.
C13_FlagWriters ==
    [][ /\ \A t \in Threads :
              (scPc[t] = "overrun" /\ scPc'[t] # "overrun") => t = "prod"
        /\ (hasOverrun' /\ ~hasOverrun) => scPc["prod"] = "overrun"
        /\ (hasOverrun /\ ~hasOverrun') => pcU = "clear" ]_vars

\* C14 (overflow is recorded, not raised): a call of stateChanged that finds
\* no free slot goes straight to line 75, sets hasOverrun, and returns
\* without trying again; none of its steps changes a ring cursor, a slot of
\* arrayOfMemoryBlocks or the shadow tree.
C14_OverflowRecorded ==
    [][ \A t \in Threads :
          /\ (scPc[t] = "free_ve" /\ scPc'[t] # "free_ve"
                  /\ FreeSpace(scVs[t], validEnd, CAPACITY) < 1)
                 => scPc'[t] = "overrun"
          /\ (scPc[t] = "overrun" /\ scPc'[t] # "overrun")
                 => (hasOverrun' /\ scPc'[t] = "idle")
          /\ (scPc[t] \in {"free_vs", "free_ve", "overrun"} /\ scPc'[t] # scPc[t])
                 => UNCHANGED <<validStart, validEnd, arrayOfMemoryBlocks,
                                shadowValueTree>> ]_vars

\* An overflowing call of the producer has returned: the flag is set, the
\* ring still holds its records and the dropped mutation is in no slot.
C14_Witness ==
    /\ hasOverrun
    /\ scPc["prod"] = "idle"
    /\ pcU = "idle"
    /\ validStart # validEnd
    /\ \A i \in 0..(CAPACITY - 1) :
           arrayOfMemoryBlocks[i] # EncodeChange(Len(sourceTree.log))

\* C15 (tree confinement), as claimed: only a producer step changes the
\* source tree, only the apply step of updateShadowValueTree changes the
\* shadow tree, and no step of the consumer thread reads the source tree,
\* that is, none leaves a serialisation of it in the consumer's locals.
C15_TreeConfinement ==
    [][ /\ sourceTree' # sourceTree => scPc["prod"] = "mutate"
        /\ shadowValueTree' # shadowValueTree => pcU = "apply"
        /\ pcU' # pcU =>
              ~(scRec'["cons"] # scRec["cons"] /\ scRec'["cons"].type = "fullSync") ]_vars

\* C18 (no silent drop), as claimed: a call of stateChanged returns either
\* from line 76, having set hasOverrun, or from the end of the function with
\* a reservation of exactly one slot (size1 + size2 = 1) written and
\* committed; it never returns having done neither.
C18_NoSilentDrop ==
    [][ \A t \in Threads : (InEnqueue(t) /\ scPc'[t] = "idle") =>
          \/ (scPc[t] = "overrun" /\ hasOverrun')
          \/ (scPc[t] = "fin_store" /\ scSlot[t].size = 1) ]_vars

\* C20 (reservation assertions), as claimed: at the slot accesses of lines
\* 85-89 and 55-59 the reservation has at most one slot (the jasserts of
\* lines 83 and 53) and its index is in 0..CAPACITY-1, and the read
\* reservation of a drain-loop iteration, entered with getNumReady() > 0,
\* has exactly one slot.
C20_ReservationAssertions ==
    /\ \A t \in Threads : scPc[t] = "write" =>
           (scSlot[t].size <= 1 /\ scSlot[t].start \in 0..(CAPACITY - 1))
    /\ pcU = "apply" =>
           (uSlot.size = 1 /\ uSlot.start \in 0..(CAPACITY - 1))

\* The consumer is in the recovery branch (lines 36-40) and has not yet
\* taken its snapshot, or is enqueuing a snapshot that contains mutation id.
Recovering(id) ==
    \/ pcU \in {"reset_end", "reset_start", "clear", "snapshot"}
    \/ (pcU = "fullSync" /\ Contains(scRec["cons"].tree, id))

\* C19 (no lost overflow), as claimed: while a mutation whose record was
\* dropped is contained in no snapshot enqueued or applied since, hasOverrun
\* is true or a call of updateShadowValueTree is in its recovery branch with
\* the snapshot still to come (taken but not yet enqueued counts as well).
C19_NoLostOverflow == dropped > 0 => (hasOverrun \/ Recovering(dropped))

----------------------------------------------------------------------------
(* ArgumentOrganizer.h: numbers                                             *)
(*                                                                          *)
(* An int is an integer of the model.  An int64 is a sign and the bits of   *)
(* its magnitude, most significant first and without leading zeros, so that *)
(* values beyond 32 bits can be written.  A double is sign, mantissa bits   *)
(* (at most MantissaBits of them, first and last bit 1) and a binary        *)
(* exponent: its value is mantissa * 2^exp.                                 *)

\* Significant bits of an IEEE-754 double.
MantissaBits == 53

\* Bits of an int.
IntBits == 32

RECURSIVE Bits(_)
Bits(n) == IF n = 0 THEN <<>> ELSE Append(Bits(n \div 2), n % 2)

\* Positions of the one bits.
Ones(bits) == {i \in 1..Len(bits) : bits[i] = 1}

First(S) == CHOOSE i \in S : \A j \in S : i <= j
Last(S) == CHOOSE i \in S : \A j \in S : i >= j

StripLeading(bits) ==
    IF Ones(bits) = {} THEN <<>> ELSE SubSeq(bits, First(Ones(bits)), Len(bits))

Zeros(n) == [i \in 1..n |-> 0]

\* The magnitude plus one: the last zero bit becomes one and the ones after
\* it become zero.
Increment(bits) ==
    LET zeroAt == {i \in 1..Len(bits) : bits[i] = 0}
    IN  IF zeroAt = {} THEN <<1>> \o Zeros(Len(bits))
        ELSE SubSeq(bits, 1, Last(zeroAt) - 1) \o <<1>>
                 \o Zeros(Len(bits) - Last(zeroAt))

\* The value of a magnitude that fits an integer of the model.
RECURSIVE Value(_)
Value(bits) ==
    IF bits = <<>> THEN 0
    ELSE 2 * Value(SubSeq(bits, 1, Len(bits) - 1)) + bits[Len(bits)]

Int64(neg, bits) ==
    LET m == StripLeading(bits) IN [neg |-> neg /\ m # <<>>, bits |-> m]

\* (int64) i
IntToInt64(i) == Int64(i < 0, Bits(IF i < 0 THEN -i ELSE i))

\* (int) of an int64: the low IntBits bits, read as two's complement.
Int64ToInt(b) ==
    LET n    == Len(b.bits)
        low  == StripLeading(SubSeq(b.bits, IF n > IntBits THEN n - IntBits + 1 ELSE 1, n))
        top  == Len(low) = IntBits
        rest == Value(IF top THEN Tail(low) ELSE low)
        half == 2 ^ (IntBits - 2)
    IN  IF ~b.neg
        THEN (IF top THEN (rest - half) - half ELSE rest)
        ELSE (IF top THEN (IF rest = 0 THEN (0 - half) - half ELSE (half - rest) + half)
                     ELSE 0 - rest)

\* The same double with an odd mantissa.
StripTrailing(d) ==
    LET last == Last(Ones(d.bits))
    IN  [d EXCEPT !.bits = SubSeq(@, 1, last), !.exp = @ + (Len(d.bits) - last)]

Double(neg, bits, exp) ==
    LET m == StripLeading(bits)
    IN  IF m = <<>> THEN [neg |-> FALSE, bits |-> <<>>, exp |-> 0]
        ELSE StripTrailing([neg |-> neg, bits |-> m, exp |-> exp])

\* (double) of an int64: exact up to MantissaBits bits, otherwise rounded to
\* the nearest double, ties to the even mantissa.
Int64ToDouble(b) ==
    LET n == Len(b.bits)
    IN  IF n <= MantissaBits THEN Double(b.neg, b.bits, 0)
        ELSE LET keep   == SubSeq(b.bits, 1, MantissaBits)
                 rest   == SubSeq(b.bits, MantissaBits + 1, n)
                 sticky == \E i \in 2..Len(rest) : rest[i] = 1
                 up     == rest[1] = 1 /\ (sticky \/ keep[MantissaBits] = 1)
             IN  Double(b.neg, IF up THEN Increment(keep) ELSE keep, Len(rest))

\* (double) i
IntToDouble(i) == Int64ToDouble(IntToInt64(i))

\* (int64) of a double: the fraction is cut off.
DoubleToInt64(d) ==
    IF d.exp >= 0 THEN Int64(d.neg, d.bits \o Zeros(d.exp))
    ELSE IF 0 - d.exp >= Len(d.bits) THEN Int64(FALSE, <<>>)
    ELSE Int64(d.neg, SubSeq(d.bits, 1, Len(d.bits) + d.exp))

\* (int) of a double: the fraction is cut off.  The result is undefined when
\* it does not fit an int.
DoubleToInt(d) ==
    LET b == DoubleToInt64(d)
    IN  IF Len(b.bits) < IntBits THEN Int64ToInt(b) ELSE "undefined"

----------------------------------------------------------------------------
(* ArgumentOrganizer.h: juce::var, juce::String and the conversions of var  *)

\* Longest argument list and longest template parameter pack explored.
MaxArgs == 2
MaxTypes == 2

\* A String is its characters; the text printed for a double or an object
\* pointer is not spelled out.
Text(chars) == [text |-> chars]
TextOf(v) == [textOf |-> v]

DigitChars == <<"0", "1", "2", "3", "4", "5", "6", "7", "8", "9">>

\* A magnitude cut into digits of base 2^LimbBits, most significant first;
\* ten times a limb fits an integer of the model.
LimbBits == IntBits - 8
Limbs(bits) ==
    LET n      == Len(bits)
        k      == (n + LimbBits - 1) \div LimbBits
        padded == Zeros(k * LimbBits - n) \o bits
    IN  [i \in 1..k |-> Value(SubSeq(padded, (i - 1) * LimbBits + 1, i * LimbBits))]

\* Quotient and remainder of such a number divided by ten.
RECURSIVE DivMod10(_)
DivMod10(limbs) ==
    IF limbs = <<>> THEN [q |-> <<>>, r |-> 0]
    ELSE LET p == DivMod10(SubSeq(limbs, 1, Len(limbs) - 1))
             x == p.r * (2 ^ LimbBits) + limbs[Len(limbs)]
         IN  [q |-> Append(p.q, x \div 10), r |-> x % 10]

\* Its decimal digits.
RECURSIVE Digits(_)
Digits(limbs) ==
    IF \A i \in 1..Len(limbs) : limbs[i] = 0 THEN <<>>
    ELSE LET d == DivMod10(limbs) IN Append(Digits(d.q), DigitChars[d.r + 1])

\* String (int64)
Int64ToString(b) ==
    Text(IF b.bits = <<>> THEN <<"0">>
         ELSE (IF b.neg THEN <<"-">> ELSE <<>>) \o Digits(Limbs(b.bits)))

DigitOf(c) == CHOOSE d \in 0..9 : DigitChars[d + 1] = c

\* The number made of the leading digits of chars, after acc.
RECURSIVE ParseDigits(_, _)
ParseDigits(chars, acc) ==
    IF chars # <<>> /\ \E d \in 0..9 : DigitChars[d + 1] = chars[1]
    THEN ParseDigits(Tail(chars), 10 * acc + DigitOf(chars[1]))
    ELSE acc

RECURSIVE SkipSpaces(_)
SkipSpaces(chars) ==
    IF chars # <<>> /\ chars[1] = " " THEN SkipSpaces(Tail(chars)) ELSE chars

\* String::getIntValue(): leading white space, an optional sign, then digits
\* up to the first other character; a text without leading digits gives 0.
GetIntValue(s) ==
    IF "text" \notin DOMAIN s THEN 0
    ELSE LET c == SkipSpaces(s.text)
         IN  IF c # <<>> /\ c[1] = "-" THEN 0 - ParseDigits(Tail(c), 0)
             ELSE ParseDigits(c, 0)

\* The variants.
VoidVar == [type |-> "void", val |-> 0]
IntVar(i) == [type |-> "int", val |-> i]
Int64Var(b) == [type |-> "int64", val |-> b]
DoubleVar(d) == [type |-> "double", val |-> d]
BoolVar(b) == [type |-> "bool", val |-> b]
StringVar(s) == [type |-> "string", val |-> s]
ObjectVar(o) == [type |-> "object", val |-> o]

\* A null DynamicObject::Ptr.
NullObject == [object |-> "null"]

\* var::operator int()
ToInt(v) ==
    CASE v.type = "int" -> v.val
      [] v.type = "int64" -> Int64ToInt(v.val)
      [] v.type = "double" -> DoubleToInt(v.val)
      [] v.type = "bool" -> (IF v.val THEN 1 ELSE 0)
      [] v.type = "string" -> GetIntValue(v.val)
      [] OTHER -> 0

\* var::operator int64()
ToInt64(v) ==
    CASE v.type = "int" -> IntToInt64(v.val)
      [] v.type = "int64" -> v.val
      [] v.type = "double" -> DoubleToInt64(v.val)
      [] v.type = "bool" -> IntToInt64(IF v.val THEN 1 ELSE 0)
      [] v.type = "string" -> IntToInt64(GetIntValue(v.val))
      [] OTHER -> IntToInt64(0)

\* var::operator double().  The strings explored have no fraction part.
ToDouble(v) ==
    CASE v.type = "int" -> IntToDouble(v.val)
      [] v.type = "int64" -> Int64ToDouble(v.val)
      [] v.type = "double" -> v.val
      [] v.type = "bool" -> IntToDouble(IF v.val THEN 1 ELSE 0)
      [] v.type = "string" -> IntToDouble(GetIntValue(v.val))
      [] OTHER -> IntToDouble(0)

\* var::operator bool()
ToBool(v) ==
    CASE v.type = "int" -> v.val # 0
      [] v.type = "int64" -> v.val.bits # <<>>
      [] v.type = "double" -> v.val.bits # <<>>
      [] v.type = "bool" -> v.val
      [] v.type = "string" ->
            \/ GetIntValue(v.val) # 0
            \/ v.val \in {Text(<<"t", "r", "u", "e">>), Text(<<"y", "e", "s">>)}
      [] v.type = "object" -> v.val # NullObject
      [] OTHER -> FALSE

\* var::toString()
VarToString(v) ==
    CASE v.type = "int" -> Int64ToString(IntToInt64(v.val))
      [] v.type = "int64" -> Int64ToString(v.val)
      [] v.type = "bool" -> Text(IF v.val THEN <<"1">> ELSE <<"0">>)
      [] v.type = "string" -> v.val
      [] v.type = "void" -> Text(<<>>)
      [] OTHER -> TextOf(v)

\* var::getDynamicObject()
GetDynamicObject(v) == IF v.type = "object" THEN v.val ELSE NullObject

----------------------------------------------------------------------------
(* ArgumentOrganizer.h: AnyNumber, VariantConverter and the two organizers  *)

\* The template arguments explored.
Types == {"int", "int64", "double", "bool", "String", "AnyNumber", "DynamicObject::Ptr"}

\* 2^53 + 1, the first integer a double cannot hold.
BeyondDouble == Int64(FALSE, <<1>> \o Zeros(MantissaBits - 1) \o <<1>>)

\* 2.5
TwoAndAHalf == Double(FALSE, <<1, 0, 1>>, 0 - 1)

\* The arguments explored: one variant of each type.
VarSamples ==
    { VoidVar, IntVar(7), Int64Var(BeyondDouble), DoubleVar(TwoAndAHalf),
      BoolVar(TRUE), StringVar(Text(<<"1", "2">>)), ObjectVar([object |-> "o1"]) }

\* AnyNumber (lines 46-63): the constructors store their argument in v.
AnyNumber(v) == [v |-> v]

\* What the conversion operators of an AnyNumber return (lines 53-59).
Observe(x) == [asInt |-> ToInt(x.v), asDouble |-> ToDouble(x.v), asInt64 |-> ToInt64(x.v)]

\* VariantConverter<T>::fromVar.  Lines 69-74 for DynamicObject::Ptr; lines
\* 80-85 for AnyNumber, where fromVar returns a double from which the
\* AnyNumber is then constructed; static_cast<T> (v) for the other types.
FromVar(T, v) ==
    CASE T = "int" -> ToInt(v)
      [] T = "int64" -> ToInt64(v)
      [] T = "double" -> ToDouble(v)
      [] T = "bool" -> ToBool(v)
      [] T = "String" -> VarToString(v)
      [] T = "AnyNumber" -> AnyNumber(DoubleVar(ToDouble(v)))
      [] T = "DynamicObject::Ptr" -> GetDynamicObject(v)

\* A value-initialised T.
DefaultValue(T) ==
    CASE T = "int" -> 0
      [] T = "int64" -> IntToInt64(0)
      [] T = "double" -> IntToDouble(0)
      [] T = "bool" -> FALSE
      [] T = "String" -> Text(<<>>)
      [] T = "AnyNumber" -> AnyNumber(VoidVar)
      [] T = "DynamicObject::Ptr" -> NullObject

\* lines 198-226: varIsSameTypeAs<T> (v)
VarIsSameTypeAs(T, v) ==
    CASE T = "String" -> v.type = "string"
      [] T = "AnyNumber" -> v.type \in {"int", "double", "int64"}
      [] T = "int" -> v.type = "int"
      [] T = "bool" -> v.type = "bool"
      [] T = "double" -> v.type = "double"
      [] T = "int64" -> v.type = "int64"
      [] T = "DynamicObject::Ptr" -> v.type = "object"
      [] OTHER -> FALSE

\* lines 182-196: populate_array<T> (vArguments)
RECURSIVE populate_array(_, _)
populate_array(T, vArguments) ==
    IF vArguments = <<>> THEN <<>>
    ELSE LET n             == Len(vArguments)
             arrayToReturn == populate_array(T, SubSeq(vArguments, 1, n - 1))
             element       == vArguments[n]
         IN  IF VarIsSameTypeAs(T, element)
             THEN Append(arrayToReturn, FromVar(T, element))
             ELSE arrayToReturn

ArgLists == UNION {[1..k -> VarSamples] : k \in 0..MaxArgs}
TypeLists == UNION {[1..k -> Types] : k \in 1..MaxTypes}

\* A native function is called with some arguments; the synchroniser plays
\* no part.
ArgInit ==
    /\ SyncInit
    /\ CAPACITY = 1
    /\ arguments \in ArgLists
    /\ typeList \in TypeLists
    /\ organizer = "none"
    /\ tpl = <<>>
    /\ reads = {}

\* populate_tuple without the test of i against a.numArguments: past the end
\* of a.arguments it reads whatever is there.
ArgumentOrganizerUnchecked ==
    /\ organizer = "none"
    /\ \E past \in [1..Len(typeList) -> VarSamples] :
          tpl' = [n \in 1..Len(typeList) |->
                     FromVar(typeList[n],
                             IF n <= Len(arguments) THEN arguments[n] ELSE past[n])]
    /\ reads' = 0..(Len(typeList) - 1)
    /\ organizer' = "simple"
    /\ UNCHANGED <<syncVars, arguments, typeList>>

\* lines 96-98 and 121-123: ArgumentOrganizer<T...> (a); the i-th element of
\* tpl is fromVar (i < a.numArguments ? a.arguments[i] : var()).
ArgumentOrganizer ==
    /\ organizer = "none"
    /\ tpl' = [n \in 1..Len(typeList) |->
                  FromVar(typeList[n],
                          IF n - 1 < Len(arguments) THEN arguments[n] ELSE VoidVar)]
    /\ reads' = {i \in 0..(Len(typeList) - 1) : i < Len(arguments)}
    /\ organizer' = "simple"
    /\ UNCHANGED <<syncVars, arguments, typeList>>

\* lines 134-136 and 172-180: ComplexArgumentOrganizer<T...> (a); the n-th
\* element of tpl is populate_array<T_n> (a).
ComplexArgumentOrganizer ==
    /\ organizer = "none"
    /\ tpl' = [n \in 1..Len(typeList) |-> populate_array(typeList[n], arguments)]
    /\ reads' = 0..(Len(arguments) - 1)
    /\ organizer' = "complex"
    /\ UNCHANGED <<syncVars, arguments, typeList>>

\* lines 106-108: getArgument<n>()
getArgument(n) == tpl[n + 1]

\* lines 163-165: getConstArray<n>()
getConstArray(n) == tpl[n + 1]

\* lines 156-158: getNumArguments<n>()
getNumArguments(n) == Len(tpl[n + 1])

ArgNext == ArgumentOrganizer \/ ComplexArgumentOrganizer
ArgSpec == ArgInit /\ [][ArgNext]_vars

----------------------------------------------------------------------------
(* ArgumentOrganizer.h: properties *)

\* Two values of type T cannot be told apart: an AnyNumber is seen only
\* through its conversion operators.
SameValue(T, x, y) == IF T = "AnyNumber" THEN Observe(x) = Observe(y) ELSE x = y

Matches(T, v) ==
    \/ T = "AnyNumber" /\ v.type \in {"int", "int64", "double"}
    \/ T = "String" /\ v.type = "string"
    \/ T = "DynamicObject::Ptr" /\ v.type = "object"
    \/ T \in {"int", "int64", "double", "bool"} /\ v.type = T

\* The members of args that match T, in order.
RECURSIVE Matching(_, _)
Matching(T, args) ==
    IF args = <<>> THEN <<>>
    ELSE (IF Matches(T, Head(args)) THEN <<Head(args)>> ELSE <<>>)
             \o Matching(T, Tail(args))

\* The element x of an array of type T, read back as a variant of type ty.
ReadBack(T, x, ty) ==
    LET v == IF T = "AnyNumber" THEN x.v ELSE
             CASE T = "int" -> IntVar(x)
               [] T = "int64" -> Int64Var(x)
               [] T = "double" -> DoubleVar(x)
               [] T = "bool" -> BoolVar(x)
               [] T = "String" -> StringVar(x)
               [] T = "DynamicObject::Ptr" -> ObjectVar(x)
    IN  CASE ty = "int" -> IntVar(ToInt(v))
          [] ty = "int64" -> Int64Var(ToInt64(v))
          [] ty = "double" -> DoubleVar(ToDouble(v))
          [] OTHER -> v

\* C17 (ComplexArgumentOrganizer), as claimed: getConstArray<n>() is exactly
\* the received arguments whose variant type matches the n-th type, in their
\* original order (each element, read in its argument's type, is that
\* argument), and getNumArguments<n>() is their number.
C17_ComplexArgumentOrganizer ==
    organizer = "complex" =>
        \A n \in 0..(Len(typeList) - 1) :
            LET T   == typeList[n + 1]
                sub == Matching(T, arguments)
            IN  /\ getNumArguments(n) = Len(sub)
                /\ Len(getConstArray(n)) = Len(sub)
                /\ \A j \in 1..Len(sub) :
                      j <= Len(getConstArray(n))
                         => ReadBack(T, getConstArray(n)[j], sub[j].type) = sub[j]
====
